---- MODULE Spec2Model ----
(***************************************************************************)
(* FinanceTracker: the CIBC statement parser (app/pdf_parser.py) and the   *)
(* insert-if-absent persistence helpers (app/finance_db.py).               *)
(*                                                                         *)
(* Text is modelled as TLA+ strings: a line, a token, a description and a  *)
(* row_hash are the character strings the Python code handles, and the     *)
(* string operations of the code (in, strip, split, startswith, rfind,     *)
(* upper, the two regular expressions) are computed character by           *)
(* character.                                                              *)
(***************************************************************************)
EXTENDS Integers, Sequences, FiniteSets, TLC

(***************************************************************************)
(* State.                                                                  *)
(***************************************************************************)
VARIABLES
    pc,            \* where the program is: "read", "parse", "parsed", "extend", "returned", "raised"
    today,         \* date.today().year
    uploaded,      \* extract_transactions: the uploaded_files argument
    files,         \* extract_transactions: the files the for loop has not reached yet
    all_tx,        \* extract_transactions: all_tx
    all_pay,       \* extract_transactions: all_pay
    result,        \* what extract_transactions returned: (df_transactions, df_payments)
    doc,           \* parse_cibc_lines: the lines argument
    lines,         \* parse_cibc_lines: the lines the for loop has not reached yet
    year,          \* parse_cibc_lines: the year argument
    inside_txn,    \* parse_cibc_lines: inside_txn
    inside_pay,    \* parse_cibc_lines: inside_pay
    tx,            \* parse_cibc_lines: all_tx (the caller's tx)
    pay,           \* parse_cibc_lines: all_pay (the caller's pay)
    before,        \* the flags and list lengths as they were before the last loop iteration
    run,           \* how many times extract_transactions has been called on uploaded
    first,         \* what the first call returned
    db,            \* the database: the rows of the tables transactions and payments
    sess,          \* per dashboard session: where its upsert call is, and the call's locals
    rules_call     \* apply_category_rules called on its own: arguments and return value

vars == <<pc, today, uploaded, files, all_tx, all_pay, result, doc, lines, year,
          inside_txn, inside_pay, tx, pay, before, run, first, db, sess, rules_call>>

batchVars == <<today, uploaded, files, all_tx, all_pay, result, run, first>>
parseVars == <<doc, lines, year, inside_txn, inside_pay, tx, pay, before>>
dbVars == <<db, sess>>
fnVars == <<rules_call>>

(***************************************************************************)
(* Character classes and the Python string operations the parser uses.     *)
(***************************************************************************)
Ch(s, i) == SubSeq(s, i, i)

LowerAlphabet == "abcdefghijklmnopqrstuvwxyz"
UpperAlphabet == "ABCDEFGHIJKLMNOPQRSTUVWXYZ"
DigitChars == {"0", "1", "2", "3", "4", "5", "6", "7", "8", "9"}
LowerChars == {Ch(LowerAlphabet, i) : i \in 1..Len(LowerAlphabet)}
UpperChars == {Ch(UpperAlphabet, i) : i \in 1..Len(UpperAlphabet)}
LetterChars == LowerChars \cup UpperChars
\* \w of the re module (ASCII part).
WordChars == LetterChars \cup DigitChars \cup {"_"}
\* what str.strip() removes and str.split() splits on (ASCII part).
SpaceChars == {" ", "\t", "\n", "\r"}

\* Python's None where the value is otherwise a string (a category, a regex group):
\* no token and no rule label contains "<"
None == "<None>"
\* Python's None where the value is otherwise a float
NoneFloat == [none |-> TRUE]
\* pandas' null date marker, where the value is otherwise a Timestamp
NaT == [nat |-> TRUE]

Max(a, b) == IF a >= b THEN a ELSE b
Min(a, b) == IF a <= b THEN a ELSE b

\* `w in s`
Contains(s, w) ==
    \E i \in 1..(Len(s) - Len(w) + 1) : SubSeq(s, i, i + Len(w) - 1) = w

\* s.startswith(p)
StartsWith(s, p) == Len(p) <= Len(s) /\ SubSeq(s, 1, Len(p)) = p

\* s.endswith(p)
EndsWith(s, p) == Len(p) <= Len(s) /\ SubSeq(s, Len(s) - Len(p) + 1, Len(s)) = p

\* s.rfind(w), 1-based; 0 when w does not occur (Python: -1)
RFind(s, w) ==
    LET At == {i \in 1..(Len(s) - Len(w) + 1) : SubSeq(s, i, i + Len(w) - 1) = w}
    IN  IF At = {} THEN 0 ELSE CHOOSE i \in At : \A j \in At : j <= i

\* s.strip()
Strip(s) ==
    LET Keep == {i \in 1..Len(s) : Ch(s, i) \notin SpaceChars}
    IN  IF Keep = {} THEN ""
        ELSE SubSeq(s, CHOOSE i \in Keep : \A j \in Keep : i <= j,
                       CHOOSE i \in Keep : \A j \in Keep : j <= i)

\* the index of the first character of s at or after i that is in set cs; Len(s)+1 if none
FirstIn(s, i, cs) ==
    CHOOSE j \in i..(Len(s) + 1) :
        /\ j = Len(s) + 1 \/ Ch(s, j) \in cs
        /\ \A k \in i..(j - 1) : Ch(s, k) \notin cs

\* the index of the first character of s at or after i that is not in set cs
FirstNotIn(s, i, cs) ==
    CHOOSE j \in i..(Len(s) + 1) :
        /\ j = Len(s) + 1 \/ Ch(s, j) \notin cs
        /\ \A k \in i..(j - 1) : Ch(s, k) \in cs

\* s.split(): the maximal runs of non-whitespace characters, in order
Split(s) ==
    LET from[i \in 1..(Len(s) + 1)] ==
            LET b == FirstNotIn(s, i, SpaceChars)
                e == FirstIn(s, b, SpaceChars)
            IN  IF b > Len(s) THEN <<>>
                ELSE IF e > Len(s) THEN <<SubSeq(s, b, Len(s))>>
                ELSE <<SubSeq(s, b, e - 1)>> \o from[e]
    IN  from[1]

\* s.split(sep) for a one-character separator: the pieces between separators
SplitOn(s, sep) ==
    LET from[i \in 1..(Len(s) + 1)] ==
            LET e == FirstIn(s, i, {sep})
            IN  IF e > Len(s) THEN <<SubSeq(s, i, Len(s))>>
                ELSE <<SubSeq(s, i, e - 1)>> \o from[e + 1]
    IN  from[1]

\* sep.join(parts)
JoinWith(parts, sep) ==
    LET upto[k \in 0..Len(parts)] ==
            IF k = 0 THEN ""
            ELSE IF k = 1 THEN parts[1]
            ELSE upto[k - 1] \o sep \o parts[k]
    IN  upto[Len(parts)]

\* c.upper() for one character
UpperCh(c) ==
    IF c \in LowerChars
    THEN Ch(UpperAlphabet, CHOOSE i \in 1..Len(LowerAlphabet) : Ch(LowerAlphabet, i) = c)
    ELSE c

\* s.upper(): character by character (the range is halved, so that long strings
\* stay shallow)
Upper(s) ==
    LET part[lo \in 1..(Len(s) + 1), hi \in 0..Len(s)] ==
            IF lo > hi THEN ""
            ELSE IF lo = hi THEN UpperCh(Ch(s, lo))
            ELSE part[lo, (lo + hi) \div 2] \o part[(lo + hi) \div 2 + 1, hi]
    IN  part[1, Len(s)]

\* s.replace(c, "") for each character c of cs
Remove(s, cs) ==
    LET part[lo \in 1..(Len(s) + 1), hi \in 0..Len(s)] ==
            IF lo > hi THEN ""
            ELSE IF lo = hi THEN (IF Ch(s, lo) \in cs THEN "" ELSE Ch(s, lo))
            ELSE part[lo, (lo + hi) \div 2] \o part[(lo + hi) \div 2 + 1, hi]
    IN  part[1, Len(s)]

AllIn(s, cs) == \A i \in 1..Len(s) : Ch(s, i) \in cs

DigitValue(c) == CHOOSE d \in 0..9 : Ch("0123456789", d + 1) = c

\* the value of a string of decimal digits
DigitsToNat(s) ==
    LET upto[k \in 0..Len(s)] ==
            IF k = 0 THEN 0 ELSE 10 * upto[k - 1] + DigitValue(Ch(s, k))
    IN  upto[Len(s)]

\* str(n) for a natural number
NatToStr(n) ==
    LET str[k \in 0..n] ==
            IF k < 10 THEN Ch("0123456789", k + 1)
            ELSE str[k \div 10] \o Ch("0123456789", (k % 10) + 1)
    IN  str[n]

\* s, zero padded on the left to at least w characters (%0wd)
Pad(s, w) ==
    LET pad[k \in 0..w] == IF k = 0 THEN "" ELSE "0" \o pad[k - 1]
    IN  pad[Max(0, w - Len(s))] \o s

\* s repeated n times
Rep(s, n) ==
    LET rep[k \in 0..n] ==
            IF k = 0 THEN ""
            ELSE IF k % 2 = 1 THEN s \o rep[k - 1]
            ELSE rep[k \div 2] \o rep[k \div 2]
    IN  rep[n]

(***************************************************************************)
(* pdf_parser.py: constants.                                               *)
(***************************************************************************)
MONTHS == <<"Jan", "Feb", "Mar", "Apr", "May", "Jun",
            "Jul", "Aug", "Sep", "Oct", "Nov", "Dec">>

PAYMENT_WORDS == <<"PAYMENT", "PAYMENT - THANK YOU", "ONLINE PAYMENT",
                   "MOBILE PAYMENT", "E-PMT">>

CATEGORY_RULES == <<
    <<"DENTAL", "Health">>,
    <<"DENTIST", "Health">>,
    <<"PHARMACY", "Health">>,
    <<"UBER EATS", "Restaurants">>,
    <<"PIZZA", "Restaurants">>,
    <<"STARBUCKS", "Restaurants">>,
    <<"TIM HORTONS", "Restaurants">>,
    <<"LOBLAW", "Grocery">>,
    <<"WALMART", "Grocery">>,
    <<"COSTCO", "Grocery">>,
    <<"NETFLIX", "Subscriptions">>,
    <<"SPOTIFY", "Subscriptions">> >>

PAYMENTS_HEADER == "Your payments"
CHARGES_HEADER == "Your new charges and credits"
NOISE_MARKERS == <<"Important Notice", "Spend Report", "Prepared for:", "Trademark">>

\* a binary64 holds no decimal integer of more than 309 digits: float() of one is inf
FloatMaxDigits == 309

(***************************************************************************)
(* AMOUNT_AT_END = (-?\$?\d[\d,]*\.?\d{0,2})$                              *)
(***************************************************************************)
\* re.fullmatch of  \.?\d{0,2}
MatchesFraction(s) ==
    LET d == IF StartsWith(s, ".") THEN SubSeq(s, 2, Len(s)) ELSE s
    IN  Len(d) <= 2 /\ AllIn(d, DigitChars)

\* re.fullmatch of  -?\$?\d[\d,]*\.?\d{0,2}
MatchesAmount(s) ==
    LET a == IF StartsWith(s, "-") THEN SubSeq(s, 2, Len(s)) ELSE s
        r == IF StartsWith(a, "$") THEN SubSeq(a, 2, Len(a)) ELSE a
    IN  /\ r # ""
        /\ Ch(r, 1) \in DigitChars
        \* \d[\d,]* ends at k; \.?\d{0,2} is what follows, at most 3 characters
        /\ \E k \in Max(1, Len(r) - 3)..Len(r) :
              /\ AllIn(SubSeq(r, 2, k), DigitChars \cup {","})
              /\ MatchesFraction(SubSeq(r, k + 1, Len(r)))

\* AMOUNT_AT_END.search(ln): group(1) of the leftmost match, None when there is none
AmountAtEnd(ln) ==
    LET At == {i \in 1..Len(ln) : MatchesAmount(SubSeq(ln, i, Len(ln)))}
    IN  IF At = {} THEN None
        ELSE SubSeq(ln, CHOOSE i \in At : \A j \in At : i <= j, Len(ln))

(***************************************************************************)
(* parse_amount: float(token without "," and "$"), None when float raises. *)
(* A float is [neg, cents, inf]: sign, magnitude in hundredths, overflow.  *)
(* Amount tokens have at most two fraction digits (AMOUNT_AT_END), so      *)
(* hundredths are exact; exponent, "inf" and "nan" spellings, which no     *)
(* match of AMOUNT_AT_END has, are not read as numbers here.               *)
(***************************************************************************)
Float(neg, cents) == [neg |-> neg, cents |-> cents, inf |-> FALSE]
Infinity(neg) == [neg |-> neg, cents |-> 0, inf |-> TRUE]

StripLeadingZeros(s) == SubSeq(s, FirstNotIn(s, 1, {"0"}), Len(s))

PyFloat(text) ==
    LET t == Strip(text)
        neg == StartsWith(t, "-")
        u == IF StartsWith(t, "-") \/ StartsWith(t, "+") THEN SubSeq(t, 2, Len(t)) ELSE t
        dot == FirstIn(u, 1, {"."})
        whole == SubSeq(u, 1, dot - 1)
        frac == SubSeq(u, dot + 1, Len(u))
    IN  IF ~(AllIn(whole, DigitChars) /\ AllIn(frac, DigitChars)) \/ whole \o frac = ""
        THEN NoneFloat
        ELSE IF Len(StripLeadingZeros(whole)) > FloatMaxDigits
        THEN Infinity(neg)
        ELSE Float(neg, 100 * DigitsToNat(whole)
                        + DigitsToNat(SubSeq(frac \o "00", 1, 2)))

parse_amount(token) == PyFloat(Remove(token, {",", "$"}))

(***************************************************************************)
(* to_date: pd.to_datetime(f"{mon} {int(day)} {year}", errors="coerce"),   *)
(* NaT when int(day) raises.  A Timestamp is [y, m, d].  The month names   *)
(* read are the three-letter abbreviations, in any case.                   *)
(***************************************************************************)
\* an exception that int(day) raises; IsRaised(v): v is an exception, not a value
ValueError == [raised |-> "ValueError"]
IsRaised(v) == "raised" \in DOMAIN v

IsLeap(y) == (y % 4 = 0 /\ y % 100 # 0) \/ y % 400 = 0

DaysIn(m, y) ==
    IF m = 2 THEN (IF IsLeap(y) THEN 29 ELSE 28)
    ELSE IF m \in {4, 6, 9, 11} THEN 30 ELSE 31

\* int(day) succeeds: optional sign, then digits
IsPyInt(day) ==
    LET t == Strip(day)
        u == IF StartsWith(t, "-") \/ StartsWith(t, "+") THEN SubSeq(t, 2, Len(t)) ELSE t
    IN  u # "" /\ AllIn(u, DigitChars)

PyInt(day) ==
    LET t == Strip(day)
        u == IF StartsWith(t, "-") \/ StartsWith(t, "+") THEN SubSeq(t, 2, Len(t)) ELSE t
    IN  IF StartsWith(t, "-") THEN 0 - DigitsToNat(u) ELSE DigitsToNat(u)

MonthNumber(mon) ==
    LET Ms == {i \in 1..Len(MONTHS) : Upper(MONTHS[i]) = Upper(mon)}
    IN  IF Ms = {} THEN 0 ELSE CHOOSE i \in Ms : TRUE

\* to_date as it would be if a date that fails to parse fell back to January 1st
to_date_Fallback(mon, day, yr) ==
    LET m == MonthNumber(mon)
    IN  IF IsPyInt(day) /\ m # 0 /\ PyInt(day) >= 1 /\ PyInt(day) <= DaysIn(m, yr)
        THEN [y |-> yr, m |-> m, d |-> PyInt(day)]
        ELSE [y |-> yr, m |-> 1, d |-> 1]

\* to_date as it would be without the try/except around int(day)
to_date_Uncaught(mon, day, yr) ==
    IF ~IsPyInt(day) THEN ValueError
    ELSE LET m == MonthNumber(mon)
             d == PyInt(day)
         IN  IF m # 0 /\ d >= 1 /\ d <= DaysIn(m, yr)
             THEN [y |-> yr, m |-> m, d |-> d]
             ELSE NaT

to_date(mon, day, yr) ==
    IF ~IsPyInt(day) THEN NaT
    ELSE LET m == MonthNumber(mon)
             d == PyInt(day)
         IN  IF m # 0 /\ d >= 1 /\ d <= DaysIn(m, yr)
             THEN [y |-> yr, m |-> m, d |-> d]
             ELSE NaT

(***************************************************************************)
(* guess_year: re.search(r"\b(20\d{2})\b", big_text), else today's year.   *)
(***************************************************************************)
YearMatchAt(text, i) ==
    /\ i + 3 <= Len(text)
    /\ SubSeq(text, i, i + 1) = "20"
    /\ Ch(text, i + 2) \in DigitChars
    /\ Ch(text, i + 3) \in DigitChars
    /\ (i = 1 \/ Ch(text, i - 1) \notin WordChars)
    /\ (i + 3 = Len(text) \/ Ch(text, i + 4) \notin WordChars)

\* guess_year as it would be if the pattern never matched
guess_year_Today(big_text, this_year) == this_year

guess_year(big_text, this_year) ==
    LET At == {i \in 1..Len(big_text) : YearMatchAt(big_text, i)}
    IN  IF At = {} THEN this_year
        ELSE LET i == CHOOSE k \in At : \A j \in At : k <= j
             IN  DigitsToNat(SubSeq(big_text, i, i + 3))

(***************************************************************************)
(* looks_like_payment, apply_category_rules.                               *)
(***************************************************************************)
looks_like_payment(desc) ==
    LET d == Upper(desc)
    IN  \E i \in 1..Len(PAYMENT_WORDS) : Contains(d, PAYMENT_WORDS[i])

\* apply_category_rules as it would be if the rules only filled in a missing category
apply_category_rules_FillOnly(description, current_category) ==
    IF description = "" \/ current_category # None THEN current_category
    ELSE LET d == Upper(description)
             Hits == {i \in 1..Len(CATEGORY_RULES) : Contains(d, CATEGORY_RULES[i][1])}
         IN  IF Hits = {} THEN current_category
             ELSE CATEGORY_RULES[CHOOSE i \in Hits : \A j \in Hits : i <= j][2]

\* apply_category_rules as it would be if the loop did not return at the first match
apply_category_rules_LastMatch(description, current_category) ==
    IF description = "" THEN current_category
    ELSE LET d == Upper(description)
             Hits == {i \in 1..Len(CATEGORY_RULES) : Contains(d, CATEGORY_RULES[i][1])}
         IN  IF Hits = {} THEN current_category
             ELSE CATEGORY_RULES[CHOOSE i \in Hits : \A j \in Hits : j <= i][2]

apply_category_rules(description, current_category) ==
    IF description = "" THEN current_category
    ELSE LET d == Upper(description)
             Hits == {i \in 1..Len(CATEGORY_RULES) : Contains(d, CATEGORY_RULES[i][1])}
         IN  IF Hits = {} THEN current_category
             ELSE CATEGORY_RULES[CHOOSE i \in Hits : \A j \in Hits : i <= j][2]

(***************************************************************************)
(* parse_cibc_lines: one iteration of `for ln in lines`.                   *)
(***************************************************************************)
\* the rows appended to all_tx and all_pay
TxRow(trans_date, post_date, description, category, amount) ==
    [Bank |-> "CIBC", TransDate |-> trans_date, PostDate |-> post_date,
     Description |-> description, Category |-> category, Amount |-> amount]

PayRow(trans_date, post_date, description, amount) ==
    [Bank |-> "CIBC", TransDate |-> trans_date, PostDate |-> post_date,
     Description |-> description, Amount |-> amount]

\* Marker as it would be if the charges header were tested before the payments header
Marker_ChargesFirst(ln) ==
    IF Contains(ln, CHARGES_HEADER) THEN "charges"
    ELSE IF Contains(ln, PAYMENTS_HEADER) THEN "payments"
    ELSE IF \E i \in 1..Len(NOISE_MARKERS) : Contains(ln, NOISE_MARKERS[i]) THEN "noise"
    ELSE "data"

\* the section toggles: which of the three `if ... continue` tests the line meets first
Marker(ln) ==
    IF Contains(ln, PAYMENTS_HEADER) THEN "payments"
    ELSE IF Contains(ln, CHARGES_HEADER) THEN "charges"
    ELSE IF \E i \in 1..Len(NOISE_MARKERS) : Contains(ln, NOISE_MARKERS[i]) THEN "noise"
    ELSE "data"

\* HasMonth as it would be if the month prefilter were left out
HasMonth_Always(ln) == TRUE

\* any(m in ln for m in MONTHS)
HasMonth(ln) == \E i \in 1..Len(MONTHS) : Contains(ln, MONTHS[i])

\* len(parts) < 6 skips the line
MinParts == 6

\* head = f"{trans_mon} {trans_day} {post_mon} {post_day} "
HeadOf(parts) ==
    parts[1] \o " " \o parts[2] \o " " \o parts[3] \o " " \o parts[4] \o " "

\* ln[len(head):amount_start].strip(), amount_start = ln.rfind(amount_token)
DescriptionOf(ln, head, amount_token) ==
    Strip(SubSeq(ln, Len(head) + 1, RFind(ln, amount_token) - 1))

\* Classify as it would be if the section flags were tested before the payment keywords
Classify_SectionFirst(in_txn, in_pay, description) ==
    IF in_pay THEN "payment"
    ELSE IF in_txn THEN "transaction"
    ELSE IF looks_like_payment(description) THEN "payment"
    ELSE "none"

\* if inside_pay or looks_like_payment(description): ... elif inside_txn: ...
Classify(in_txn, in_pay, description) ==
    IF in_pay \/ looks_like_payment(description) THEN "payment"
    ELSE IF in_txn THEN "transaction"
    ELSE "none"

\* re.fullmatch(r"[A-Za-z\-]+", maybe_cat)
IsCategoryToken(maybe_cat) ==
    maybe_cat # "" /\ AllIn(maybe_cat, LetterChars \cup {"-"})

\* TransactionRow as it would be if the category token were left in the description
TransactionRow_NoStrip(parts, trans_date, post_date, description, amount) ==
    LET maybe_cat == parts[Len(parts) - 1]
        category == IF IsCategoryToken(maybe_cat) THEN maybe_cat ELSE None
    IN  TxRow(trans_date, post_date, description,
              apply_category_rules(description, category), amount)

\* the transaction branch: positional category, description trimmed of it, then the rules
TransactionRow(parts, trans_date, post_date, description, amount) ==
    LET maybe_cat == parts[Len(parts) - 1]
        category == IF IsCategoryToken(maybe_cat) THEN maybe_cat ELSE None
        desc == IF IsCategoryToken(maybe_cat) /\ EndsWith(description, maybe_cat)
                THEN Strip(SubSeq(description, 1, Len(description) - Len(maybe_cat)))
                ELSE description
    IN  TxRow(trans_date, post_date, desc, apply_category_rules(desc, category), amount)

\* what one iteration does to the section flags, and the rows it appends
Step(in_txn, in_pay, new_tx, new_pay) ==
    [inside_txn |-> in_txn, inside_pay |-> in_pay, tx |-> new_tx, pay |-> new_pay,
     raised |-> FALSE]

\* an iteration that an exception leaves: nothing is appended, the loop is over
Raise(in_txn, in_pay) ==
    [inside_txn |-> in_txn, inside_pay |-> in_pay, tx |-> <<>>, pay |-> <<>>,
     raised |-> TRUE]

\* the part of the iteration after the prefilters: dates, head check, classification
FieldsOf(ln, amount_token, amount, parts, yr, in_txn, in_pay) ==
    LET trans_date == to_date(parts[1], parts[2], yr)
        post_date == to_date(parts[3], parts[4], yr)
        head == HeadOf(parts)
        description == DescriptionOf(ln, head, amount_token)
        kind == Classify(in_txn, in_pay, description)
    IN  IF IsRaised(trans_date) \/ IsRaised(post_date) THEN Raise(in_txn, in_pay)
        ELSE IF ~StartsWith(ln, head) THEN Step(in_txn, in_pay, <<>>, <<>>)
        ELSE IF kind = "payment"
        THEN Step(in_txn, in_pay, <<>>, <<PayRow(trans_date, post_date, description, amount)>>)
        ELSE IF kind = "transaction"
        THEN Step(in_txn, in_pay,
                  <<TransactionRow(parts, trans_date, post_date, description, amount)>>, <<>>)
        ELSE Step(in_txn, in_pay, <<>>, <<>>)

LoopBody(raw, yr, in_txn, in_pay) ==
    LET ln == Strip(raw)
        skip == Step(in_txn, in_pay, <<>>, <<>>)
    IN  IF ln = "" THEN skip
        ELSE IF Marker(ln) = "payments" THEN Step(FALSE, TRUE, <<>>, <<>>)
        ELSE IF Marker(ln) = "charges" THEN Step(TRUE, FALSE, <<>>, <<>>)
        ELSE IF Marker(ln) = "noise" THEN Step(FALSE, FALSE, <<>>, <<>>)
        ELSE IF ~HasMonth(ln) THEN skip
        ELSE LET amount_token == AmountAtEnd(ln)
             IN  IF amount_token = None THEN skip
                 ELSE LET amount == parse_amount(amount_token)
                          parts == Split(ln)
                      IN  IF amount = NoneFloat THEN skip
                          ELSE IF Len(parts) < MinParts THEN skip
                          ELSE FieldsOf(ln, amount_token, amount, parts, yr, in_txn, in_pay)

(***************************************************************************)
(* Inputs.  ParseCorpus: the text lines parse_cibc_lines is run on.        *)
(* BatchCorpus: the text lines the uploaded statements are made of.        *)
(***************************************************************************)
LongAmountLine == "Jan 05 Jan 07 STORE Misc " \o Rep("9", FloatMaxDigits + 1)

ParseCorpus == {
    "   ",
    "Your payments",
    "Your new charges and credits",
    "Your payments and Your new charges and credits",
    "Jan 05 Jan 07 Spend Report Misc 4.50",
    "Jan 05 Jan 07 STARBUCKS COFFEE Restaurants 4.50",
    "Jan 05 Jan 07 ONLINE PAYMENT 50.00",
    "Jan 05 Jan 07 UBER EATS TORONTO Misc 31.20",
    "Jan 05 Jan 07 SHOP Pizza 9.00",
    "Jan 05 Jan 07 DENTAL PIZZA Misc 5.00",
    "AB 05 CD 07 Marchand Store 4.50",
    "Feb 30 Mar 01 GAS BAR Transportation 20.00",
    "Jan 05 Jan 07 4.50",
    "Total balance for period is 100.00",
    "Jan  05 Jan 07 STORE Misc 4.50",
    "Jan 05 Jan 07 STORE X ABC123",
    "Jan 5th Jan 07 STORE Misc 4.50",
    "Jan 05 Jan 07 SHELL #42 40.00",
    LongAmountLine }

BatchCorpus == {
    "CIBC Statement 2024",
    "Your new charges and credits",
    "Jan 05 Jan 07 STARBUCKS COFFEE Restaurants 4.50",
    "Jan 05 Jan 07 ONLINE PAYMENT 50.00" }

\* further text lines behind the rows that are saved to the database
DbCorpus == {
    "Jan 05 Jan 07 Starbucks Coffee Restaurants 4.50" }

\* the statement years parse_cibc_lines is run with
ParseYears == {2024, 2025}
\* date.today().year when the first statement is read
FirstToday == 2025

\* at most MaxLines lines in one run of parse_cibc_lines
MaxLines == 3
\* at most MaxDocs uploaded files, of at most MaxBatchLines text lines together
MaxDocs == 2
MaxBatchLines == 3
\* the calendar year changes at most MaxTicks times
MaxTicks == 1
\* at most MaxRows rows in an incoming table, at most MaxCalls upsert calls
MaxRows == 2
MaxCalls == 3

Years == ParseYears \cup {2024} \cup (FirstToday..(FirstToday + MaxTicks))

SeqsUpTo(S, n) == UNION {[1..k -> S] : k \in 0..n}

\* LoopBody, tabulated over the inputs of the model
LoopBodyOf ==
    [raw \in ParseCorpus \cup BatchCorpus \cup DbCorpus, yr \in Years,
     a \in BOOLEAN, b \in BOOLEAN |->
        LoopBody(raw, yr, a, b)]

\* no frames (nothing returned yet)
NoResult == [returned |-> FALSE]

Snapshot(a, b, t, p) == [inside_txn |-> a, inside_pay |-> b, ntx |-> Len(t), npay |-> Len(p)]

\* what an upsert call returned: the number of rows inserted, or the error it raised
NoReturn == [returned |-> FALSE]
Returned(n) == [returned |-> TRUE, ok |-> TRUE, n |-> n]
Raised(e) == [returned |-> TRUE, ok |-> FALSE, error |-> e]
\* no call made yet
NoCall == [made |-> FALSE]

\* apply_category_rules is not being called on its own
NotCalled == [pc |-> "none"]

\* the dashboard sessions, and a session that has not saved yet
Sessions == {1, 2}
Idle == [pc |-> "idle", table |-> "", df |-> <<>>, new_df |-> <<>>, ret |-> NoReturn,
         last |-> NoCall, calls |-> 0]
\* the two tables, as create_tables makes them
EmptyDb == [transactions |-> <<>>, payments |-> <<>>]

(***************************************************************************)
(* parse_cibc_lines(lines, year)                                           *)
(***************************************************************************)
\* SectionAtEntry as it would be if the flags were kept from the previous call
SectionAtEntry_Carried == [inside_txn |-> inside_txn, inside_pay |-> inside_pay]

\* inside_txn = inside_pay = False on entry
SectionAtEntry == [inside_txn |-> FALSE, inside_pay |-> FALSE]

\* the call: bind the arguments, initialise the locals
EnterParse(the_lines, the_year) ==
    /\ doc' = the_lines
    /\ lines' = the_lines
    /\ year' = the_year
    /\ inside_txn' = SectionAtEntry.inside_txn
    /\ inside_pay' = SectionAtEntry.inside_pay
    /\ tx' = <<>>
    /\ pay' = <<>>
    /\ before' = Snapshot(SectionAtEntry.inside_txn, SectionAtEntry.inside_pay, <<>>, <<>>)

\* one iteration of `for ln in lines`
ParseLine ==
    /\ pc = "parse"
    /\ lines # <<>>
    /\ LET out == LoopBodyOf[Head(lines), year, inside_txn, inside_pay]
       IN  /\ inside_txn' = out.inside_txn
           /\ inside_pay' = out.inside_pay
           /\ tx' = tx \o out.tx
           /\ pay' = pay \o out.pay
           \* an exception of the body is caught nowhere: it leaves parse_cibc_lines
           /\ pc' = IF out.raised THEN "raised" ELSE pc
    /\ before' = Snapshot(inside_txn, inside_pay, tx, pay)
    /\ lines' = Tail(lines)
    /\ UNCHANGED <<doc, year, batchVars, dbVars, fnVars>>

\* return all_tx, all_pay
ParseReturn ==
    /\ pc = "parse"
    /\ lines = <<>>
    /\ pc' = "parsed"
    /\ UNCHANGED <<parseVars, batchVars, dbVars, fnVars>>

InitParse ==
    /\ pc = "parse"
    /\ today = FirstToday
    /\ uploaded = <<>>
    /\ files = <<>>
    /\ all_tx = <<>>
    /\ all_pay = <<>>
    /\ result = NoResult
    /\ run = 1
    /\ first = NoResult
    /\ db = EmptyDb
    /\ sess = [s \in Sessions |-> Idle]
    /\ rules_call = NotCalled
    /\ doc \in SeqsUpTo(ParseCorpus, MaxLines)
    /\ lines = doc
    /\ year \in ParseYears
    /\ inside_txn = SectionAtEntry.inside_txn
    /\ inside_pay = SectionAtEntry.inside_pay
    /\ tx = <<>>
    /\ pay = <<>>
    /\ before = Snapshot(inside_txn, inside_pay, <<>>, <<>>)

NextParse == ParseLine \/ ParseReturn

SpecParse == InitParse /\ [][NextParse]_vars

(***************************************************************************)
(* extract_transactions(uploaded_files)                                    *)
(***************************************************************************)
\* an uploaded file: read_pdf_text raises on it, or returns its text
Unreadable == [ok |-> FALSE, text |-> ""]
Readable(text) == [ok |-> TRUE, text |-> text]

\* "\n".join(pages): the text lines of the pages, one after the other
TextOf(ls) == JoinWith(ls, "\n")

\* the texts of exactly k text lines; an unreadable file counts as -1 lines
TextsOfLen == [k \in 0..MaxBatchLines |-> {TextOf(ls) : ls \in [1..k -> BatchCorpus]}]
FilesOfLen(k) == IF k < 0 THEN {Unreadable} ELSE {Readable(text) : text \in TextsOfLen[k]}

\* the batches: n files, each readable or not, of at most MaxBatchLines text
\* lines together
BatchesOf[n \in 0..MaxDocs, budget \in 0..MaxBatchLines] ==
    IF n = 0 THEN {<<>>}
    ELSE UNION { {<<f>> \o rest : f \in FilesOfLen(k),
                                 rest \in BatchesOf[n - 1, budget - Max(k, 0)]} :
                 k \in (-1)..budget }

Batches == UNION {BatchesOf[n, MaxBatchLines] : n \in 0..MaxDocs}

Texts == UNION {TextsOfLen[k] : k \in 0..MaxBatchLines}
TodayYears == FirstToday..(FirstToday + MaxTicks)

\* year = guess_year(big_text); lines = [ln for ln in big_text.split("\n") if ln.strip()]
ReadOf ==
    [text \in Texts, this_year \in TodayYears |->
        [year |-> guess_year(text, this_year),
         lines |-> SelectSeq(SplitOn(text, "\n"), LAMBDA ln : Strip(ln) # "")]]

\* pd.to_datetime(column, errors="coerce") on what to_date returned
CoerceDate(v) == IF v = NaT THEN NaT ELSE [y |-> v.y, m |-> v.m, d |-> v.d]
\* pd.to_numeric(column, errors="coerce") on what parse_amount returned
CoerceAmount(v) == [neg |-> v.neg, cents |-> v.cents, inf |-> v.inf]

\* pd.DataFrame(all_tx, columns=...), then the type pass
TxFrame(rows) ==
    [i \in 1..Len(rows) |->
        [rows[i] EXCEPT !.TransDate = CoerceDate(@), !.PostDate = CoerceDate(@),
                        !.Amount = CoerceAmount(@)]]
PayFrame(rows) ==
    [i \in 1..Len(rows) |->
        [rows[i] EXCEPT !.TransDate = CoerceDate(@), !.PostDate = CoerceDate(@),
                        !.Amount = CoerceAmount(@)]]

\* big_text = read_pdf_text(f) ... tx, pay = parse_cibc_lines(lines, year): the call
ReadPdf ==
    /\ pc = "read"
    /\ files # <<>>
    /\ Head(files).ok
    /\ LET r == ReadOf[Head(files).text, today]
       IN  EnterParse(r.lines, r.year)
    /\ files' = Tail(files)
    /\ pc' = "parse"
    /\ UNCHANGED <<today, uploaded, all_tx, all_pay, result, run, first, dbVars, fnVars>>

\* read_pdf_text(f) raises: nothing in extract_transactions or in app.py catches it
ReadFails ==
    /\ pc = "read"
    /\ files # <<>>
    /\ ~Head(files).ok
    /\ pc' = "raised"
    /\ UNCHANGED <<parseVars, batchVars, dbVars, fnVars>>

\* all_tx.extend(tx); all_pay.extend(pay)
Extend ==
    /\ pc = "parsed"
    /\ all_tx' = all_tx \o tx
    /\ all_pay' = all_pay \o pay
    /\ pc' = "read"
    /\ UNCHANGED <<today, uploaded, files, result, run, first, parseVars, dbVars, fnVars>>

\* the loop is over: build the two frames and return them
MakeFrames ==
    /\ pc = "read"
    /\ files = <<>>
    /\ result' = [returned |-> TRUE, tx |-> TxFrame(all_tx), pay |-> PayFrame(all_pay)]
    /\ pc' = "returned"
    /\ UNCHANGED <<today, uploaded, files, all_tx, all_pay, run, first, parseVars, dbVars, fnVars>>

\* the calendar year changes (date.today().year is read once per file)
Tick ==
    /\ pc = "read"
    /\ today < FirstToday + MaxTicks
    /\ today' = today + 1
    /\ UNCHANGED <<pc, uploaded, files, all_tx, all_pay, result, run, first, parseVars, dbVars, fnVars>>

\* the dashboard script runs again on the same uploaded files
Reextract ==
    /\ pc = "returned"
    /\ run = 1
    /\ run' = 2
    /\ first' = result
    /\ result' = NoResult
    /\ files' = uploaded
    /\ all_tx' = <<>>
    /\ all_pay' = <<>>
    /\ pc' = "read"
    /\ UNCHANGED <<today, uploaded, parseVars, dbVars, fnVars>>

Init ==
    /\ pc = "read"
    /\ today = FirstToday
    /\ uploaded \in Batches
    /\ files = uploaded
    /\ all_tx = <<>>
    /\ all_pay = <<>>
    /\ result = NoResult
    /\ run = 1
    /\ first = NoResult
    /\ db = EmptyDb
    /\ sess = [s \in Sessions |-> Idle]
    /\ rules_call = NotCalled
    /\ doc = <<>>
    /\ lines = <<>>
    /\ year = FirstToday
    /\ inside_txn = FALSE
    /\ inside_pay = FALSE
    /\ tx = <<>>
    /\ pay = <<>>
    /\ before = Snapshot(FALSE, FALSE, <<>>, <<>>)

Next ==
    \/ ReadPdf
    \/ ReadFails
    \/ ParseLine
    \/ ParseReturn
    \/ Extend
    \/ MakeFrames
    \/ Tick
    \/ Reextract

Spec == Init /\ [][Next]_vars

(***************************************************************************)
(* What the claims say of a text line, read off the line itself.           *)
(***************************************************************************)
IsCalendarDate(mon, day, yr) ==
    /\ IsPyInt(day)
    /\ MonthNumber(mon) # 0
    /\ PyInt(day) >= 1
    /\ PyInt(day) <= DaysIn(MonthNumber(mon), yr)

LineFacts(raw, yr) ==
    LET ln == Strip(raw)
        parts == Split(ln)
        n == Len(parts)
        monthSubstring == \E i \in 1..Len(MONTHS) : Contains(ln, MONTHS[i])
        amountMatch == AmountAtEnd(ln) # None
        prefixOk == n >= 4 /\ StartsWith(ln, HeadOf(parts))
        payments == Contains(ln, PAYMENTS_HEADER)
        charges == Contains(ln, CHARGES_HEADER)
        noise == \E i \in 1..Len(NOISE_MARKERS) : Contains(ln, NOISE_MARKERS[i])
        admitted == /\ ln # ""
                    /\ ~payments /\ ~charges /\ ~noise
                    /\ monthSubstring
                    /\ amountMatch
                    /\ n >= MinParts
                    /\ prefixOk
        description == IF amountMatch /\ prefixOk
                       THEN DescriptionOf(ln, HeadOf(parts), AmountAtEnd(ln))
                       ELSE ""
    IN  [blank |-> ln = "",
         payments |-> payments,
         charges |-> charges,
         noise |-> noise,
         monthSubstring |-> monthSubstring,
         monthToken |-> \E k \in 1..n : \E i \in 1..Len(MONTHS) : parts[k] = MONTHS[i],
         amountMatch |-> amountMatch,
         amountToken |-> n >= 1 /\ MatchesAmount(parts[Max(n, 1)]),
         nparts |-> n,
         prefixOk |-> prefixOk,
         admitted |-> admitted,
         description |-> description,
         keyword |-> \E i \in 1..Len(PAYMENT_WORDS) :
                        Contains(Upper(description), PAYMENT_WORDS[i]),
         ruleHits |-> {i \in 1..Len(CATEGORY_RULES) :
                        Contains(Upper(description), CATEGORY_RULES[i][1])},
         positional |-> IF n >= 2 /\ IsCategoryToken(parts[Max(n - 1, 1)])
                        THEN parts[Max(n - 1, 1)] ELSE None,
         transMD |-> IF n >= 2 /\ IsPyInt(parts[Min(2, n)])
                     THEN <<MonthNumber(parts[Min(1, n)]), PyInt(parts[Min(2, n)])>>
                     ELSE <<0, 0>>,
         postMD |-> IF n >= 4 /\ IsPyInt(parts[Min(4, n)])
                    THEN <<MonthNumber(parts[Min(3, n)]), PyInt(parts[Min(4, n)])>>
                    ELSE <<0, 0>>,
         dayTokensInt |-> n >= 4 /\ IsPyInt(parts[Min(2, n)]) /\ IsPyInt(parts[Min(4, n)]),
         transValid |-> n >= 2 /\ IsCalendarDate(parts[Min(1, n)], parts[Min(2, n)], yr),
         postValid |-> n >= 4 /\ IsCalendarDate(parts[Min(3, n)], parts[Min(4, n)], yr)]

FactsOf == [raw \in ParseCorpus \cup BatchCorpus, yr \in Years |-> LineFacts(raw, yr)]

\* the rule indices whose substring occurs in an emitted description
RuleHits(description) ==
    {i \in 1..Len(CATEGORY_RULES) : Contains(Upper(description), CATEGORY_RULES[i][1])}

EmittedDescriptions ==
    {LoopBodyOf[raw, yr, TRUE, FALSE].tx[1].Description :
        <<raw, yr>> \in {q \in (ParseCorpus \cup BatchCorpus) \X Years :
                            LoopBodyOf[q[1], q[2], TRUE, FALSE].tx # <<>>}}

RuleHitsOf == [d \in EmittedDescriptions |-> RuleHits(d)]

(***************************************************************************)
(* The last loop iteration of parse_cibc_lines, as the state records it.   *)
(***************************************************************************)
\* how many lines the loop has taken
Taken == Len(doc) - Len(lines)
Acted == pc \in {"parse", "parsed"} /\ Taken >= 1
\* the line the last iteration took, and what the claims say of it
Last == doc[Taken]
F == FactsOf[Last, year]
\* the rows the last iteration appended
NewTx == SubSeq(tx, before.ntx + 1, Len(tx))
NewPay == SubSeq(pay, before.npay + 1, Len(pay))
NoNewRows == NewTx = <<>> /\ NewPay = <<>>

(***************************************************************************)
(* C1.  A candidate data line that passes the admission gate and the       *)
(* prefix check and whose description contains a payment keyword is        *)
(* emitted as exactly one payment row and as no transaction row, whatever  *)
(* the section state; and no line is emitted into both lists.              *)
(***************************************************************************)
C1_PaymentKeywordIsPayment ==
    Acted =>
        /\ (F.admitted /\ F.keyword) =>
              /\ Len(NewPay) = 1
              /\ NewTx = <<>>
              /\ NewPay[1].Description = F.description
        /\ ~(NewTx # <<>> /\ NewPay # <<>>)

\* a payment-keyword line met inside the charges section, emitted as a payment
C1_Witness ==
    /\ Acted
    /\ F.admitted /\ F.keyword
    /\ before.inside_txn /\ ~before.inside_pay
    /\ Len(NewPay) = 1 /\ NewTx = <<>>

(***************************************************************************)
(* C2 as stated.  A line with no month abbreviation among its whitespace   *)
(* tokens, or whose last token is no monetary amount, or with fewer than   *)
(* 6 tokens, produces no row.                                              *)
(***************************************************************************)
C2_TokenGate ==
    Acted =>
        ((~F.monthToken \/ ~F.amountToken \/ F.nparts < MinParts) => NoNewRows)

(***************************************************************************)
(* C2 amended.  A line in which no month abbreviation occurs anywhere as   *)
(* a substring, or at whose end the amount pattern does not match, or      *)
(* with fewer than 6 whitespace tokens, produces no row.                   *)
(***************************************************************************)
C2_SubstringGate ==
    Acted =>
        ((~F.monthSubstring \/ ~F.amountMatch \/ F.nparts < MinParts) => NoNewRows)

\* inside a section, a line that fails only the month check is dropped
C2_Witness ==
    /\ Acted
    /\ before.inside_txn
    /\ ~F.blank /\ ~F.payments /\ ~F.charges /\ ~F.noise
    /\ ~F.monthSubstring /\ F.amountMatch /\ F.nparts >= MinParts /\ F.prefixOk
    /\ NoNewRows

(***************************************************************************)
(* C3 as stated.  For a line emitted as a transaction, if the text between *)
(* the date prefix and the amount contains the substring of a category     *)
(* rule, the row's category is that rule's label.                          *)
(***************************************************************************)
C3_RuleOverLineText ==
    (Acted /\ Len(NewTx) = 1) =>
        \A i \in F.ruleHits : NewTx[1].Category = CATEGORY_RULES[i][2]

(***************************************************************************)
(* C3 amended.  For a line emitted as a transaction, if the row's          *)
(* description (the text between the date prefix and the amount, less the  *)
(* positional category token stripped from its end) contains the substring *)
(* of a category rule, the row's category is the label of the first such   *)
(* rule in list order, whatever the positional token was.                  *)
(***************************************************************************)
C3_RuleOverRowDescription ==
    (Acted /\ Len(NewTx) = 1) =>
        LET hits == RuleHitsOf[NewTx[1].Description]
        IN  hits # {} =>
              \E i \in hits :
                  /\ \A j \in hits : i <= j
                  /\ NewTx[1].Category = CATEGORY_RULES[i][2]

\* a rule overrides a positional category token that is not its label
C3_Witness ==
    /\ Acted /\ Len(NewTx) = 1
    /\ RuleHitsOf[NewTx[1].Description] # {}
    /\ F.positional # None
    /\ F.positional # NewTx[1].Category
    /\ NewTx[1].Category = "Restaurants"

(***************************************************************************)
(* C5 as stated.  A line whose transaction-date or post-date tokens fail   *)
(* to parse as a calendar date emits no row.                               *)
(***************************************************************************)
DateFails == F.nparts >= 4 /\ (~F.transValid \/ ~F.postValid)

C5_BadDateDropped ==
    (Acted /\ DateFails) => NoNewRows

(***************************************************************************)
(* C5 amended.  A line whose transaction-date or post-date tokens fail to  *)
(* parse as a calendar date raises no error and is not dropped for it: if  *)
(* it passes the admission gate and the prefix check and the section state *)
(* or a payment keyword classifies it, it is emitted as one row, in which  *)
(* exactly the dates that failed to parse are the null date marker.        *)
(***************************************************************************)
C5_BadDateEmittedAsNaT ==
    (Acted /\ DateFails /\ F.admitted
           /\ (before.inside_txn \/ before.inside_pay \/ F.keyword)) =>
        /\ Len(NewTx) + Len(NewPay) = 1
        /\ LET row == (NewTx \o NewPay)[1]
           IN  /\ (row.TransDate = NaT) <=> ~F.transValid
               /\ (row.PostDate = NaT) <=> ~F.postValid

\* a line with an impossible transaction date, emitted with NaT and a real post date
C5_Witness ==
    /\ Acted /\ DateFails /\ F.admitted
    /\ F.monthToken /\ ~F.transValid /\ F.postValid
    /\ Len(NewTx) = 1
    /\ NewTx[1].TransDate = NaT
    /\ NewTx[1].PostDate # NaT

(***************************************************************************)
(* C6 as stated.  Every row of the two lists has a non-null, finite        *)
(* numeric amount.                                                         *)
(***************************************************************************)
FiniteAmount(a) == a # NoneFloat /\ ~a.inf

C6_AmountsFinite ==
    /\ \A i \in 1..Len(tx) : FiniteAmount(tx[i].Amount)
    /\ \A i \in 1..Len(pay) : FiniteAmount(pay[i].Amount)

(***************************************************************************)
(* C7.  A line with the payments header sets IN_PAYMENTS; else one with    *)
(* the charges header sets IN_TRANSACTIONS; else one with a noise marker   *)
(* sets NEUTRAL; none of them emits a row.  An admitted data line without  *)
(* a payment keyword is emitted as a payment iff the most recent marker    *)
(* line before it was a payments header, as a transaction iff it was a     *)
(* charges header, and not at all after a noise marker or no marker.       *)
(***************************************************************************)
MarkerKind(raw) ==
    LET f == FactsOf[raw, year]
    IN  IF f.payments THEN "payments"
        ELSE IF f.charges THEN "charges"
        ELSE IF f.noise THEN "noise"
        ELSE "none"

\* the kind of the last marker line among doc[1..j]
MostRecentMarker(j) ==
    LET Ms == {i \in 1..j : MarkerKind(doc[i]) # "none"}
    IN  IF Ms = {} THEN "none"
        ELSE MarkerKind(doc[CHOOSE i \in Ms : \A q \in Ms : q <= i])

C7_SectionSegmentation ==
    Acted =>
        /\ F.payments => (inside_pay /\ ~inside_txn /\ NoNewRows)
        /\ (~F.payments /\ F.charges) => (inside_txn /\ ~inside_pay /\ NoNewRows)
        /\ (~F.payments /\ ~F.charges /\ F.noise) =>
              (~inside_txn /\ ~inside_pay /\ NoNewRows)
        /\ (F.admitted /\ ~F.keyword) =>
              LET m == MostRecentMarker(Taken - 1)
              IN  /\ (Len(NewPay) = 1 /\ NewTx = <<>>) <=> (m = "payments")
                  /\ (Len(NewTx) = 1 /\ NewPay = <<>>) <=> (m = "charges")
                  /\ (m \in {"noise", "none"}) => NoNewRows

\* payments header, then charges header, then a data line: a transaction
C7_Witness ==
    /\ Acted /\ Taken = 3
    /\ MarkerKind(doc[1]) = "payments"
    /\ MarkerKind(doc[2]) = "charges"
    /\ F.admitted /\ ~F.keyword
    /\ Len(NewTx) = 1 /\ NewPay = <<>>

(***************************************************************************)
(* finance_db.py: the content-derived identity of a row.                   *)
(***************************************************************************)
\* "" for NaT, else strftime("%Y-%m-%d")
_norm_date(x) ==
    IF x = NaT THEN ""
    ELSE Pad(NatToStr(x.y), 4) \o "-" \o Pad(NatToStr(x.m), 2) \o "-" \o Pad(NatToStr(x.d), 2)

\* "" for None, else str(x).strip().upper()
_norm_text(x) == IF x = None THEN "" ELSE Upper(Strip(x))

\* f"{float(x):.2f}"
_norm_amount(x) ==
    (IF x.neg THEN "-" ELSE "") \o
    (IF x.inf THEN "inf"
     ELSE NatToStr(x.cents \div 100) \o "." \o Pad(NatToStr(x.cents % 100), 2))

\* sha256 of the joined fields; the digest is written as the text it is the digest of
_hash_row(bank, trans_date, post_date, description, category, amount) ==
    "sha256(" \o JoinWith(<<_norm_text(bank), _norm_date(trans_date), _norm_date(post_date),
                           _norm_text(description), _norm_text(category),
                           _norm_amount(amount)>>, "|") \o ")"

\* the rows parse_cibc_lines can emit on the lines of the model
EmittedTx ==
    UNION {{LoopBodyOf[q].tx[i] : i \in 1..Len(LoopBodyOf[q].tx)} : q \in DOMAIN LoopBodyOf}
EmittedPay ==
    UNION {{LoopBodyOf[q].pay[i] : i \in 1..Len(LoopBodyOf[q].pay)} : q \in DOMAIN LoopBodyOf}

\* _prepare_tx_df: the frame's columns renamed, and row_hash
PrepareTx(r) ==
    [bank |-> r.Bank, trans_date |-> r.TransDate, post_date |-> r.PostDate,
     description |-> r.Description, category |-> r.Category, amount |-> r.Amount,
     row_hash |-> _hash_row(r.Bank, r.TransDate, r.PostDate, r.Description,
                            r.Category, r.Amount)]

\* _prepare_pay_df: the frame's columns renamed, and row_hash (category is "")
PreparePay(r) ==
    [bank |-> r.Bank, trans_date |-> r.TransDate, post_date |-> r.PostDate,
     description |-> r.Description, amount |-> r.Amount,
     row_hash |-> _hash_row(r.Bank, r.TransDate, r.PostDate, r.Description, "", r.Amount)]

PrepareTxOf == [r \in EmittedTx |-> PrepareTx(r)]
PreparePayOf == [r \in EmittedPay |-> PreparePay(r)]

(***************************************************************************)
(* What a document yields when it is extracted alone.                      *)
(***************************************************************************)
Neutral == [inside_txn |-> FALSE, inside_pay |-> FALSE, tx |-> <<>>, pay |-> <<>>]

AloneOf(ls, yr) ==
    LET upto[k \in 0..Len(ls)] ==
            IF k = 0 THEN Neutral
            ELSE LET o == LoopBodyOf[ls[k], yr, upto[k - 1].inside_txn, upto[k - 1].inside_pay]
                 IN  [inside_txn |-> o.inside_txn, inside_pay |-> o.inside_pay,
                      tx |-> upto[k - 1].tx \o o.tx, pay |-> upto[k - 1].pay \o o.pay]
    IN  upto[Len(ls)]

\* the text lines of an uploaded file
LinesOf(f) == ReadOf[f.text, FirstToday].lines

\* description and amount of each row: what a row is, whatever the year
Shape(rows) == [i \in 1..Len(rows) |-> <<rows[i].Description, rows[i].Amount>>]

\* the rows of the readable files of the batch, each file extracted alone
ExpectedShapes(kind) ==
    LET upto[k \in 0..Len(uploaded)] ==
            IF k = 0 THEN <<>>
            ELSE upto[k - 1] \o
                 (IF uploaded[k].ok
                  THEN Shape(IF kind = "tx"
                             THEN AloneOf(LinesOf(uploaded[k]), FirstToday).tx
                             ELSE AloneOf(LinesOf(uploaded[k]), FirstToday).pay)
                  ELSE <<>>)
    IN  upto[Len(uploaded)]

(***************************************************************************)
(* C4 as stated.  When text extraction fails for one document of a batch,  *)
(* that document alone is aborted: extract_transactions still returns, and *)
(* what it returns holds the rows of every readable document of the batch, *)
(* those before the failing one and those after it.                        *)
(***************************************************************************)
C4_FailureIsolation ==
    (pc \in {"returned", "raised"}) =>
        /\ result.returned
        /\ Shape(result.tx) = ExpectedShapes("tx")
        /\ Shape(result.pay) = ExpectedShapes("pay")

(***************************************************************************)
(* C8.  Whatever section the previous document of the batch ended in, a    *)
(* document starts in NEUTRAL: no flag is set when its first line is       *)
(* reached, and the rows it contributes are the rows it yields when it is  *)
(* extracted alone.                                                        *)
(***************************************************************************)
C8_SectionStatePerDocument ==
    /\ (pc = "parse" /\ Taken = 0) => (~inside_txn /\ ~inside_pay)
    /\ (pc = "parsed") =>
          /\ tx = AloneOf(doc, year).tx
          /\ pay = AloneOf(doc, year).pay

\* the document before this one ended inside the charges section, and this one,
\* which is data lines only, has contributed nothing
C8_Witness ==
    /\ pc = "parsed"
    /\ Len(uploaded) - Len(files) >= 2
    /\ LET prev == uploaded[Len(uploaded) - Len(files) - 1]
       IN  prev.ok /\ AloneOf(LinesOf(prev), FirstToday).inside_txn
    /\ doc # <<>>
    /\ \A i \in 1..Len(doc) : FactsOf[doc[i], year].admitted
    /\ tx = <<>> /\ pay = <<>>

(***************************************************************************)
(* C10 as stated.  Two runs of extract_transactions on the same uploaded   *)
(* texts, at any two times, return rows of pairwise equal identities       *)
(* (_hash_row) and as many of them, also when a text has no 20xx year.     *)
(***************************************************************************)
SameIdentities(a, b, hash_of) ==
    /\ Len(a) = Len(b)
    /\ \A i \in 1..Min(Len(a), Len(b)) : hash_of[a[i]].row_hash = hash_of[b[i]].row_hash

C10_ReextractionSameIdentities ==
    (run = 2 /\ pc = "returned") =>
        /\ SameIdentities(first.tx, result.tx, PrepareTxOf)
        /\ SameIdentities(first.pay, result.pay, PreparePayOf)

(***************************************************************************)
(* finance_db.py: upsert_transactions, upsert_payments.  A call is two     *)
(* steps: prepare the incoming frame, read the stored row_hash values and  *)
(* keep the rows whose row_hash is not among them; then to_sql, one        *)
(* INSERT of the kept rows in one database transaction.                    *)
(***************************************************************************)
\* the frames that are saved: rows of statements of one year
DbYear == 2024
TxPool ==
    {LoopBodyOf[raw, DbYear, TRUE, FALSE].tx[1] :
        raw \in {"Jan 05 Jan 07 STARBUCKS COFFEE Restaurants 4.50",
                 "Jan 05 Jan 07 Starbucks Coffee Restaurants 4.50",
                 "Jan 05 Jan 07 UBER EATS TORONTO Misc 31.20",
                 "Feb 30 Mar 01 GAS BAR Transportation 20.00"}}
PayPool ==
    {LoopBodyOf[raw, DbYear, FALSE, TRUE].pay[1] :
        raw \in {"Jan 05 Jan 07 ONLINE PAYMENT 50.00",
                 "Jan 05 Jan 07 STARBUCKS COFFEE Restaurants 4.50"}}

\* _existing_hashes(table_name)
_existing_hashes(table_name) == {db[table_name][i].row_hash : i \in 1..Len(db[table_name])}

\* the call up to to_sql: df2, existing, new_df, and the two early returns
Begin(s, table_name, df, df2) ==
    LET existing == _existing_hashes(table_name)
        new_df == SelectSeq(df2, LAMBDA r : r.row_hash \notin existing)
        call == [sess[s] EXCEPT !.table = table_name, !.df = df, !.new_df = new_df,
                                !.calls = @ + 1,
                                !.last = IF sess[s].pc = "done"
                                         THEN [made |-> TRUE, table |-> sess[s].table,
                                               df |-> sess[s].df, ret |-> sess[s].ret]
                                         ELSE NoCall]
    IN  /\ sess[s].pc \in {"idle", "done"}
        /\ sess[s].calls < MaxCalls
        /\ sess' = [sess EXCEPT ![s] =
                      IF df2 = <<>> \/ new_df = <<>>
                      THEN [call EXCEPT !.pc = "done", !.ret = Returned(0)]
                      ELSE [call EXCEPT !.pc = "to_sql", !.ret = NoReturn]]
        /\ UNCHANGED <<db, pc, parseVars, batchVars, fnVars>>

upsert_transactions(s, df) ==
    Begin(s, "transactions", df, [i \in 1..Len(df) |-> PrepareTxOf[df[i]]])

upsert_payments(s, df) ==
    Begin(s, "payments", df, [i \in 1..Len(df) |-> PreparePayOf[df[i]]])

\* row_hash TEXT UNIQUE: the INSERT fails when it would store a row_hash twice
ViolatesUnique(table_name, new_df) ==
    \/ \E i \in 1..Len(new_df) : new_df[i].row_hash \in _existing_hashes(table_name)
    \/ \E i, j \in 1..Len(new_df) : i # j /\ new_df[i].row_hash = new_df[j].row_hash

\* new_df.to_sql(...); return len(new_df)
to_sql(s) ==
    /\ sess[s].pc = "to_sql"
    /\ IF ViolatesUnique(sess[s].table, sess[s].new_df)
       THEN /\ db' = db
            /\ sess' = [sess EXCEPT ![s].pc = "done", ![s].ret = Raised("IntegrityError")]
       ELSE /\ db' = [db EXCEPT ![sess[s].table] = @ \o sess[s].new_df]
            /\ sess' = [sess EXCEPT ![s].pc = "done",
                                    ![s].ret = Returned(Len(sess[s].new_df))]
    /\ UNCHANGED <<pc, parseVars, batchVars, fnVars>>

\* after db.create_tables(), before any save
InitDb ==
    /\ pc = "returned"
    /\ today = FirstToday
    /\ uploaded = <<>>
    /\ files = <<>>
    /\ all_tx = <<>>
    /\ all_pay = <<>>
    /\ result = NoResult
    /\ run = 1
    /\ first = NoResult
    /\ doc = <<>>
    /\ lines = <<>>
    /\ year = FirstToday
    /\ inside_txn = FALSE
    /\ inside_pay = FALSE
    /\ tx = <<>>
    /\ pay = <<>>
    /\ before = Snapshot(FALSE, FALSE, <<>>, <<>>)
    /\ db = EmptyDb
    /\ sess = [s \in Sessions |-> Idle]
    /\ rules_call = NotCalled

\* one session saves, call after call
NextDb ==
    \/ \E df \in SeqsUpTo(TxPool, MaxRows) : upsert_transactions(1, df)
    \/ \E df \in SeqsUpTo(PayPool, MaxRows) : upsert_payments(1, df)
    \/ to_sql(1)

SpecDb == InitDb /\ [][NextDb]_vars

(***************************************************************************)
(* C9 as stated.  Every upsert call, whatever its incoming table (one that *)
(* holds an identity in more than one row too), completes without error    *)
(* and leaves every incoming identity stored exactly once; no row_hash is  *)
(* ever stored twice; and a call that repeats the previous call's table    *)
(* inserts 0 rows.                                                         *)
(***************************************************************************)
IncomingHashes(c) ==
    IF c.table = "transactions"
    THEN {PrepareTxOf[c.df[i]].row_hash : i \in 1..Len(c.df)}
    ELSE {PreparePayOf[c.df[i]].row_hash : i \in 1..Len(c.df)}

StoredTimes(table_name, h) ==
    Cardinality({i \in 1..Len(db[table_name]) : db[table_name][i].row_hash = h})

C9_InsertIfAbsent ==
    \A s \in Sessions :
        (sess[s].pc = "done") =>
            /\ sess[s].ret.ok
            /\ \A h \in IncomingHashes(sess[s]) : StoredTimes(sess[s].table, h) = 1
            /\ (/\ sess[s].last.made
                /\ sess[s].last.table = sess[s].table
                /\ sess[s].last.df = sess[s].df) => (sess[s].ret.ok /\ sess[s].ret.n = 0)

(***************************************************************************)
(* C11 as stated.  parse_cibc_lines never raises and runs to the end of    *)
(* the line sequence; a problematic line (blank, marker, non-numeric day   *)
(* token, unparseable month, fewer than 6 tokens, mis-spaced prefix) only  *)
(* results in no record for that line.                                     *)
(***************************************************************************)
RunsToTheEnd ==
    /\ pc # "raised"
    /\ (pc = "parsed") => (lines = <<>> /\ Taken = Len(doc))

Problematic ==
    \/ F.blank
    \/ F.payments \/ F.charges \/ F.noise
    \/ F.nparts < MinParts
    \/ ~F.prefixOk
    \/ ~F.transValid \/ ~F.postValid

C11_ProblemLineNoRecord ==
    /\ RunsToTheEnd
    /\ (Acted /\ Problematic) => NoNewRows

(***************************************************************************)
(* C11 amended.  parse_cibc_lines never raises and runs to the end of the  *)
(* line sequence; a blank line, a marker line, a line of fewer than 6      *)
(* tokens and a line with a mis-spaced prefix result in no record for that *)
(* line, while an admitted and classified line whose only problem is a     *)
(* non-numeric day token or an unparseable month or day results in one     *)
(* record, with the null date marker for each date that did not parse.     *)
(***************************************************************************)
C11_NeverRaises ==
    /\ RunsToTheEnd
    /\ (Acted /\ (F.blank \/ F.payments \/ F.charges \/ F.noise
                    \/ F.nparts < MinParts \/ ~F.prefixOk)) => NoNewRows
    /\ (Acted /\ F.admitted /\ (~F.transValid \/ ~F.postValid)
              /\ (before.inside_txn \/ before.inside_pay \/ F.keyword)) =>
          /\ Len(NewTx) + Len(NewPay) = 1
          /\ ((NewTx \o NewPay)[1].TransDate = NaT) <=> ~F.transValid
          /\ ((NewTx \o NewPay)[1].PostDate = NaT) <=> ~F.postValid

\* a line with a non-numeric day token has been taken, and the run has returned
C11_Witness ==
    /\ pc = "parsed"
    /\ Acted
    /\ F.admitted /\ ~F.dayTokensInt
    /\ before.inside_txn
    /\ Len(NewTx) = 1
    /\ NewTx[1].TransDate = NaT

(***************************************************************************)
(* C12.  In every emitted record each of the two dates is the null date    *)
(* marker or a calendar date whose month and day are those of the line's   *)
(* first four tokens and whose year is the year resolved for the record's  *)
(* document: the first 20xx token of its text, else the current calendar   *)
(* year.  Both dates of a record carry the same year.                      *)
(***************************************************************************)
\* the maximal runs of word characters of a text, in order
WordRuns(text) ==
    LET from[i \in 1..(Len(text) + 1)] ==
            LET b == FirstIn(text, i, WordChars)
                e == FirstNotIn(text, b, WordChars)
            IN  IF b > Len(text) THEN <<>>
                ELSE <<SubSeq(text, b, e - 1)>> \o from[e]
    IN  from[1]

IsYearToken(t) ==
    Len(t) = 4 /\ SubSeq(t, 1, 2) = "20" /\ AllIn(SubSeq(t, 3, 4), DigitChars)

\* the first 20xx token of a text as a number, 0 when it has none
FirstYearToken(text) ==
    LET runs == WordRuns(text)
        At == {i \in 1..Len(runs) : IsYearToken(runs[i])}
    IN  IF At = {} THEN 0
        ELSE DigitsToNat(runs[CHOOSE i \in At : \A j \in At : i <= j])

FirstYearTokenOf == [text \in Texts |-> FirstYearToken(text)]

\* the file parse_cibc_lines is running on, and the year the claim resolves for it
CurrentFile == uploaded[Len(uploaded) - Len(files)]
ResolvedYear ==
    IF FirstYearTokenOf[CurrentFile.text] # 0
    THEN FirstYearTokenOf[CurrentFile.text]
    ELSE today

DateFrom(v, md, yr) == v = NaT \/ (v.y = yr /\ v.m = md[1] /\ v.d = md[2])

C12_SingleResolvedYear ==
    (pc \in {"parse", "parsed"}) =>
        /\ \A i \in 1..Len(tx) :
              /\ tx[i].TransDate = NaT \/ tx[i].TransDate.y = ResolvedYear
              /\ tx[i].PostDate = NaT \/ tx[i].PostDate.y = ResolvedYear
        /\ \A i \in 1..Len(pay) :
              /\ pay[i].TransDate = NaT \/ pay[i].TransDate.y = ResolvedYear
              /\ pay[i].PostDate = NaT \/ pay[i].PostDate.y = ResolvedYear
        /\ (Taken >= 1) =>
              \A i \in 1..Len(NewTx \o NewPay) :
                  /\ DateFrom((NewTx \o NewPay)[i].TransDate, F.transMD, ResolvedYear)
                  /\ DateFrom((NewTx \o NewPay)[i].PostDate, F.postMD, ResolvedYear)

\* a row dated by the year token of the text, in a year that is not the current one
C12_Witness ==
    /\ pc \in {"parse", "parsed"}
    /\ Taken >= 1
    /\ FirstYearTokenOf[CurrentFile.text] # 0
    /\ FirstYearTokenOf[CurrentFile.text] # today
    /\ Len(NewTx) = 1
    /\ NewTx[1].TransDate # NaT
    /\ NewTx[1].TransDate.y = FirstYearTokenOf[CurrentFile.text]
    /\ NewTx[1].PostDate # NaT
    /\ NewTx[1].TransDate.y = NewTx[1].PostDate.y

(***************************************************************************)
(* apply_category_rules(description, current_category), called on its own. *)
(***************************************************************************)
RuleDescriptions == {
    "", "  ", "SHOP", "GAS BAR",
    "UBER EATS TORONTO", "uber eats", "UBER", "Starbucks Coffee",
    "DENTAL PIZZA", "PIZZA DENTAL", "PIZZA PIZZA", "DENTIST PHARMACY",
    "TIM HORTONS STARBUCKS", "LOBLAW", "WALMART COSTCO", "COSTCO WALMART",
    "NETFLIX", "SPOTIFY NETFLIX", "Spotify at Starbucks", "PHARMACY" }

RuleCategories == {None, "Misc", "Restaurants", "Health"}

CallRules ==
    /\ rules_call.pc = "call"
    /\ rules_call' = [rules_call EXCEPT
                        !.pc = "done",
                        !.result = apply_category_rules(rules_call.description,
                                                        rules_call.current_category)]
    /\ UNCHANGED <<pc, parseVars, batchVars, dbVars>>

InitRules ==
    /\ pc = "returned"
    /\ today = FirstToday
    /\ uploaded = <<>>
    /\ files = <<>>
    /\ all_tx = <<>>
    /\ all_pay = <<>>
    /\ result = NoResult
    /\ run = 1
    /\ first = NoResult
    /\ doc = <<>>
    /\ lines = <<>>
    /\ year = FirstToday
    /\ inside_txn = FALSE
    /\ inside_pay = FALSE
    /\ tx = <<>>
    /\ pay = <<>>
    /\ before = Snapshot(FALSE, FALSE, <<>>, <<>>)
    /\ db = EmptyDb
    /\ sess = [s \in Sessions |-> Idle]
    /\ \E d \in RuleDescriptions, c \in RuleCategories :
          rules_call = [pc |-> "call", description |-> d, current_category |-> c,
                        result |-> None]

NextRules == CallRules

SpecRules == InitRules /\ [][NextRules]_vars

(***************************************************************************)
(* C13.  apply_category_rules returns the label of the earliest rule, in   *)
(* list order, whose substring occurs in the upper-cased description: no   *)
(* later matching rule overrides it.  When no rule matches, or the         *)
(* description is empty, it returns the current category unchanged, null   *)
(* included.                                                               *)
(***************************************************************************)
RuleOccurs(i, description) == Contains(Upper(description), CATEGORY_RULES[i][1])

C13_FirstMatchWins ==
    (rules_call.pc = "done") =>
        LET d == rules_call.description
            n == Len(CATEGORY_RULES)
        IN  /\ \A i \in 1..n :
                  (RuleOccurs(i, d) /\ \A j \in 1..(i - 1) : ~RuleOccurs(j, d)) =>
                      rules_call.result = CATEGORY_RULES[i][2]
            /\ (d = "" \/ \A i \in 1..n : ~RuleOccurs(i, d)) =>
                  rules_call.result = rules_call.current_category

\* two rules with different labels match, the later one earlier in the text
C13_Witness ==
    /\ rules_call.pc = "done"
    /\ rules_call.description = "PIZZA DENTAL"
    /\ rules_call.current_category = None
    /\ rules_call.result = "Health"

(***************************************************************************)
(* C14.  For a line emitted as a transaction: if the token before the      *)
(* amount is letters and hyphens only, it is the initial category, and it  *)
(* is stripped from the end of the description when the description ends   *)
(* with it; otherwise the initial category is null and the description is  *)
(* left intact.  (The category of the row is the initial category unless a *)
(* rule matches the row's description.)  The line                          *)
(* "Jan 05 Jan 07 STARBUCKS COFFEE Restaurants 4.50" in IN_TRANSACTIONS    *)
(* with year 2024 yields "STARBUCKS COFFEE", "Restaurants", 4.50 and the   *)
(* dates 2024-01-05 and 2024-01-07.                                        *)
(***************************************************************************)
PositionalFacts(raw) ==
    LET ln == Strip(raw)
        parts == Split(ln)
        n == Len(parts)
        amt == AmountAtEnd(ln)
        ok == amt # None /\ n >= MinParts /\ StartsWith(ln, HeadOf(parts))
        full == IF ok THEN DescriptionOf(ln, HeadOf(parts), amt) ELSE ""
        tok == IF ok THEN parts[n - 1] ELSE ""
        alpha == tok # "" /\ AllIn(tok, LetterChars \cup {"-"})
        desc == IF alpha /\ EndsWith(full, tok)
                THEN Strip(SubSeq(full, 1, Len(full) - Len(tok)))
                ELSE full
        initial == IF alpha THEN tok ELSE None
        hits == RuleHits(desc)
    IN  [alpha |-> alpha,
         suffix |-> alpha /\ EndsWith(full, tok),
         full |-> full,
         description |-> desc,
         initial |-> initial,
         category |-> IF hits = {} THEN initial
                      ELSE CATEGORY_RULES[CHOOSE i \in hits : \A j \in hits : i <= j][2]]

PositionalFactsOf == [raw \in ParseCorpus |-> PositionalFacts(raw)]

StarbucksLine == "Jan 05 Jan 07 STARBUCKS COFFEE Restaurants 4.50"
StarbucksRow ==
    [Bank |-> "CIBC",
     TransDate |-> [y |-> 2024, m |-> 1, d |-> 5],
     PostDate |-> [y |-> 2024, m |-> 1, d |-> 7],
     Description |-> "STARBUCKS COFFEE",
     Category |-> "Restaurants",
     Amount |-> [neg |-> FALSE, cents |-> 450, inf |-> FALSE]]

C14_PositionalCategory ==
    Acted =>
        /\ (Len(NewTx) = 1) =>
              /\ NewTx[1].Description = PositionalFactsOf[Last].description
              /\ NewTx[1].Category = PositionalFactsOf[Last].category
        /\ (Last = StarbucksLine /\ year = 2024
                /\ before.inside_txn /\ ~before.inside_pay) =>
              (NewTx = <<StarbucksRow>> /\ NewPay = <<>>)

\* a letters-only token stripped from the description and kept as the category
C14_Witness ==
    /\ Acted /\ Len(NewTx) = 1
    /\ PositionalFactsOf[Last].suffix
    /\ PositionalFactsOf[Last].full # NewTx[1].Description
    /\ NewTx[1].Category = PositionalFactsOf[Last].initial
    /\ RuleHitsOf[NewTx[1].Description] = {}

\* a token before the amount that is no category: null category, description intact
C14_WitnessNull ==
    /\ Acted /\ Len(NewTx) = 1
    /\ ~PositionalFactsOf[Last].alpha
    /\ NewTx[1].Category = None
    /\ NewTx[1].Description = PositionalFactsOf[Last].full

(***************************************************************************)
(* app.py, the save_to_db block, in two dashboard sessions at once: each   *)
(* session saves the frames extract_transactions returned for the same     *)
(* statement, upsert_transactions(df_t) and then upsert_payments(df_p).    *)
(***************************************************************************)
\* the frames over a pool of rows in which no identity occurs twice
DistinctFrames(pool, hash_of) ==
    {df \in SeqsUpTo(pool, MaxRows) :
        \A i, j \in 1..Len(df) : i # j => hash_of[df[i]].row_hash # hash_of[df[j]].row_hash}

\* ins_tx = db.upsert_transactions(df_t)
SaveTransactions(s) ==
    /\ result.returned
    /\ sess[s].calls = 0
    /\ upsert_transactions(s, result.tx)

\* ins_py = db.upsert_payments(df_p): reached when upsert_transactions has returned
SavePayments(s) ==
    /\ result.returned
    /\ sess[s].calls = 1
    /\ sess[s].pc = "done"
    /\ sess[s].ret.ok
    /\ upsert_payments(s, result.pay)

InitSave ==
    /\ pc = "returned"
    /\ today = FirstToday
    /\ uploaded = <<>>
    /\ files = <<>>
    /\ all_tx = <<>>
    /\ all_pay = <<>>
    /\ \E t \in DistinctFrames(TxPool, PrepareTxOf), p \in DistinctFrames(PayPool, PreparePayOf) :
          result = [returned |-> TRUE, tx |-> t, pay |-> p]
    /\ run = 1
    /\ first = NoResult
    /\ doc = <<>>
    /\ lines = <<>>
    /\ year = FirstToday
    /\ inside_txn = FALSE
    /\ inside_pay = FALSE
    /\ tx = <<>>
    /\ pay = <<>>
    /\ before = Snapshot(FALSE, FALSE, <<>>, <<>>)
    /\ db = EmptyDb
    /\ sess = [s \in Sessions |-> Idle]
    /\ rules_call = NotCalled

NextSave ==
    \E s \in Sessions :
        \/ SaveTransactions(s)
        \/ SavePayments(s)
        \/ to_sql(s)

SpecSave == InitSave /\ [][NextSave]_vars

(***************************************************************************)
(* C15 as stated.  When two sessions save the same statement and their     *)
(* steps 'read the stored row_hash values' and 'append the new rows'       *)
(* interleave, no call fails with a uniqueness violation, and each         *)
(* identity of the statement ends up stored exactly once.                  *)
(***************************************************************************)
C15_ConcurrentUpsertsSafe ==
    \A s \in Sessions :
        (sess[s].pc = "done") =>
            /\ sess[s].ret.ok
            /\ \A h \in IncomingHashes(sess[s]) : StoredTimes(sess[s].table, h) = 1

====
